---- MODULE Spec2Model ----
(***************************************************************************)
(* Model of the looper prototype (src/src/main.rs): the shared State       *)
(* (atomics), the Looper tap controller, the capture callback              *)
(* (input_data_fn), the render callback (output_data_fn), the mpsc channel *)
(* of Clips between them and the SampleBank.                               *)
(*                                                                         *)
(* The two callbacks and tap() run on three different threads.  Each       *)
(* callback is split at its accesses to state that another thread writes   *)
(* (is_recording, loop_count, total_samples, the channel); accesses to     *)
(* state only the callback itself writes are folded into the next step.    *)
(***************************************************************************)
EXTENDS Integers, Sequences, FiniteSets, TLC

\* ---------------------------------------------------------------- bounds
\* SampleBank capacity (44100 * 1000 in main.rs:65), scaled down.
BankCapacity == 2
\* Longest chunk the backend hands to the capture callback.
MaxChunk == 2
\* Longest buffer the backend hands to the render callback.
MaxBuf == 1
\* Most clips pending in the (unbounded) mpsc channel.
MaxQueue == 2
\* Most tap() calls made.
MaxTaps == 3
\* The render callback is not invoked any more once loop_count reached this.
MaxLoops == 3

\* Sample values the input device delivers: V1 until the loop length is set
\* (second tap), V2 afterwards; the bank starts at 0 (silence).
V1 == 1
V2 == 2

VARIABLES
    \* State (main.rs:154-169)
    playback, loop_len, loop_count, total_samples, is_recording,
    \* Looper (main.rs:250-256): streams present, tap counter
    input, output, tap_count,
    \* cpal streams started by play()
    input_playing, output_playing,
    \* mpsc channel of Clips (main.rs:51), SampleBank.samples (main.rs:65)
    channel, bank,
    \* capture callback: position, chunk handed in, idx loaded at line 59
    cpc, cdata, cidx,
    \* render callback: position, locals len/total_samples/clip, the number
    \* of samples of the output buffer still to fill (the locals are reset
    \* when their scope ends), the output buffer: the samples written so far
    \* while the mixing loop runs, the whole buffer when the callback returns
    rpc, rlen, rtotal, rclip, rleft, data,
    \* caller of tap(): "ready" or "halted" (main thread panicked), the result
    \* of the last call
    ui, tap_result,
    \* history: tap() calls made, samples handed to capture between tap 1 and
    \* tap 2, whether any chunk was handed to capture between tap 2 and
    \* tap 3, samples handed to capture after tap 3, the first loop_len
    \* samples rendered between tap 2 and tap 3 while no chunk was handed in
    calls, fed_first, fed_second, fed_over, out

vars == <<playback, loop_len, loop_count, total_samples, is_recording,
          input, output, tap_count, input_playing, output_playing,
          channel, bank, cpc, cdata, cidx, rpc, rlen, rtotal, rclip, rleft,
          data, ui, tap_result, calls, fed_first, fed_second, fed_over, out>>

stateVars == <<playback, loop_len, loop_count, total_samples, is_recording>>
captureVars == <<cpc, cdata, cidx>>
renderVars == <<rpc, rlen, rtotal, rclip, rleft, data>>
histVars == <<fed_first, fed_second, fed_over, out>>

NoClip == [samples |-> <<>>, start |-> 0]

\* Clip::new (main.rs:242-247)
Clip(samples, start) == [samples |-> samples, start |-> start]

\* The chunk of n samples the input device delivers.
Chunk(n, v) == [i \in 1..n |-> v]

\* ------------------------------------------------------------ State
\* State::first_loop (main.rs:191-193)
first_loop(lc) == lc = 0

\* State::began_recording (main.rs:195-197)
began_recording(rec, lc) == rec \/ ~first_loop(lc)

\* State::toggle_recording (main.rs:186-189)
toggle_recording(rec) == ~rec

\* State::inc_loop_count (main.rs:211-214)
inc_loop_count(lc) == lc + 1

\* ------------------------------------------------------------ Init
\* State::new, Looper::new, SampleBank::new(vec![0.0; ..]), mpsc::channel()
Init ==
    /\ playback = 0 /\ loop_len = 0 /\ loop_count = 0
    /\ total_samples = 0 /\ is_recording = FALSE
    /\ input = "None" /\ output = "None" /\ tap_count = 0
    /\ input_playing = FALSE /\ output_playing = FALSE
    /\ channel = <<>>
    /\ bank = [i \in 0..(BankCapacity - 1) |-> 0]
    /\ cpc = "idle" /\ cdata = <<>> /\ cidx = 0
    /\ rpc = "idle" /\ rlen = 0 /\ rtotal = 0 /\ rclip = NoClip
    /\ rleft = 0 /\ data = <<>>
    /\ ui = "ready" /\ tap_result = "none"
    /\ calls = 0 /\ fed_first = 0 /\ fed_second = FALSE /\ fed_over = 0
    /\ out = <<>>

\* main.rs:114-115: the built streams are stored in the Looper.
AttachStreams ==
    /\ ui = "ready" /\ input = "None" /\ output = "None"
    /\ input' = "Some" /\ output' = "Some"
    /\ UNCHANGED <<stateVars, tap_count, input_playing, output_playing,
                   channel, bank, captureVars, renderVars, ui, tap_result,
                   calls, histVars>>

\* ------------------------------------------------------------ Looper::tap
\* Outcome of the first arm (main.rs:270-276) after toggle_recording, given
\* whether output.play() and input.play() succeed: unwrap() of a missing
\* stream panics, a failed play() returns Err through `?`.
FirstTapOutcome(outOk, inOk) ==
    IF output = "None" THEN "panic"
    ELSE IF ~outOk THEN "err"
    ELSE IF input = "None" THEN "panic"
    ELSE IF ~inOk THEN "err"
    ELSE "ok"

\* Looper::tap (main.rs:268-288), called by init_ui (main.rs:147-150), whose
\* expect() panics the main thread on Err.
Tap(outOk, inOk) ==
    /\ ui = "ready" /\ calls < MaxTaps
    /\ calls' = calls + 1
    /\ IF tap_count = 0
       THEN LET res == FirstTapOutcome(outOk, inOk) IN
            /\ is_recording' = toggle_recording(is_recording)
            /\ output_playing' = (output_playing \/ (output = "Some" /\ outOk))
            /\ input_playing' = (input_playing \/ res = "ok")
            /\ tap_result' = res
            /\ tap_count' = IF res = "ok" THEN tap_count + 1 ELSE tap_count
            /\ ui' = IF res = "ok" THEN "ready" ELSE "halted"
            /\ UNCHANGED loop_count
       ELSE /\ IF tap_count = 1
               THEN /\ loop_count' = inc_loop_count(loop_count)
                    /\ UNCHANGED is_recording
               ELSE /\ is_recording' = toggle_recording(is_recording)
                    /\ UNCHANGED loop_count
            /\ tap_count' = tap_count + 1
            /\ tap_result' = "ok"
            /\ UNCHANGED <<input_playing, output_playing, ui>>
    /\ out' = IF tap_count = 2 THEN <<>> ELSE out
    /\ UNCHANGED <<playback, loop_len, total_samples, input, output,
                   channel, bank, captureVars, renderVars, fed_first,
                   fed_second, fed_over>>

\* ------------------------------------------------------------ SampleBank
\* SampleBank::write_at (main.rs:134-139): samples are stored one by one from
\* idx on; the indexing panics at the first idx outside the Vec, after the
\* samples before it have been stored.
write_at(b, idx, samples) ==
    [j \in DOMAIN b |->
        IF j >= idx /\ j < idx + Len(samples) THEN samples[j - idx + 1]
        ELSE b[j]]

\* Whether write_at runs to its end without an out-of-range index.
write_fits(idx, samples) == idx + Len(samples) <= BankCapacity

\* ------------------------------------------------------------ capture
Min(a, b) == IF a < b THEN a ELSE b

\* Highest value the history counter fed_first takes.
MaxFed == BankCapacity + 1

SaveNothing_never(rec) == FALSE

\* main.rs:54: if !input_state.is_recording.load(..) ("We're not recording,
\* save nothing.")
SaveNothing(rec) == ~rec

\* input_data_fn, main.rs:53-57: the backend hands in a chunk of n samples;
\* the chunk is dropped when is_recording is false.
CaptureBegin(n) ==
    /\ ui = "ready" /\ input_playing /\ cpc = "idle"
    /\ Len(channel) < MaxQueue
    /\ IF SaveNothing(is_recording)
       THEN UNCHANGED <<cpc, cdata>>
       ELSE /\ cpc' = "load_idx"
            /\ cdata' = Chunk(n, IF tap_count <= 1 THEN V1 ELSE V2)
    /\ fed_first' = IF tap_count = 1 THEN Min(fed_first + n, MaxFed)
                    ELSE fed_first
    /\ fed_second' = (fed_second \/ tap_count = 2)
    /\ fed_over' = IF tap_count = 3 THEN Min(fed_over + n, loop_len + 1)
                   ELSE fed_over
    /\ UNCHANGED <<stateVars, input, output, tap_count, input_playing,
                   output_playing, channel, bank, cidx, renderVars, ui,
                   tap_result, calls, out>>

\* main.rs:59: idx = total_samples.load()
CaptureLoadIdx ==
    /\ ui = "ready" /\ cpc = "load_idx"
    /\ cidx' = total_samples
    /\ cpc' = "send"
    /\ UNCHANGED <<stateVars, input, output, tap_count, input_playing,
                   output_playing, channel, bank, cdata, renderVars, ui,
                   tap_result, calls, histVars>>

\* main.rs:60: producer.send(Clip::new(data.to_vec(), idx)); the callback
\* returns.
CaptureSend ==
    /\ ui = "ready" /\ cpc = "send"
    /\ channel' = Append(channel, Clip(cdata, cidx))
    /\ cpc' = "idle" /\ cdata' = <<>> /\ cidx' = 0
    /\ UNCHANGED <<stateVars, input, output, tap_count, input_playing,
                   output_playing, bank, renderVars, ui, tap_result, calls,
                   histVars>>

\* ------------------------------------------------------------ render
try_recv_newest(ch) == ch[Len(ch)]

\* consumer.try_recv() (main.rs:75) on a channel that is not empty: the clip
\* sent first
try_recv(ch) == Head(ch)

\* The channel after try_recv: the clips sent after the one received
rest(ch) == Tail(ch)

\* output_data_fn, main.rs:66-77: len and total_samples are loaded, at most
\* one clip is taken from the channel, and a clip taken is dropped when
\* is_recording is false.  (A received clip is the head of the channel
\* whatever the other threads do meanwhile, so try_recv takes effect together
\* with the load of is_recording that follows it.)
RenderBegin ==
    /\ ui = "ready" /\ output_playing /\ rpc = "idle"
    /\ loop_count < MaxLoops
    /\ IF channel # <<>>
       THEN /\ channel' = rest(channel)
            /\ IF is_recording
               THEN /\ rclip' = try_recv(channel)
                    /\ rlen' = loop_len
                    /\ rtotal' = total_samples
                    /\ rpc' = "write"
               ELSE /\ rpc' = "bail_check"
                    /\ UNCHANGED <<rclip, rlen, rtotal>>
       ELSE /\ rpc' = "bail_check"
            /\ UNCHANGED <<channel, rclip, rlen, rtotal>>
    /\ UNCHANGED <<stateVars, input, output, tap_count, input_playing,
                   output_playing, bank, captureVars, rleft, data, ui,
                   tap_result, calls, histVars>>

\* main.rs:79-81: bank.write_at(clip.start, &clip.samples), which panics when
\* the clip does not fit, then total_samples.store(total_samples + len).  The
\* bank is read and written by this callback only, so the write takes effect
\* together with the store.
RenderWrite ==
    /\ ui = "ready" /\ rpc = "write"
    /\ bank' = write_at(bank, rclip.start, rclip.samples)
    /\ IF write_fits(rclip.start, rclip.samples)
       THEN /\ total_samples' = rtotal + Len(rclip.samples)
            /\ rpc' = "first_check"
            /\ UNCHANGED <<rclip, rlen>>
       ELSE /\ rpc' = "panicked"
            /\ rclip' = NoClip /\ rlen' = 0
            /\ UNCHANGED total_samples
    /\ rtotal' = 0
    /\ UNCHANGED <<playback, loop_len, loop_count, is_recording, input, output,
                   tap_count, input_playing, output_playing, channel,
                   captureVars, rleft, data, ui, tap_result, calls,
                   histVars>>

BailNoPlayback_never(lc) == FALSE

\* main.rs:92-95: "Bail; no playback yet."
BailNoPlayback(lc) == first_loop(lc)

\* What a sample of the output buffer may hold when the backend hands the
\* buffer to the callback (main.rs:66, data: &mut [f32]): silence or a sample
\* played earlier.
BufferOnEntry == {0, V1}

\* main.rs:92-98 for a buffer of n samples that hold e on entry: return
\* without touching the buffer during the first loop, else enter the loop over
\* the buffer.
BailOrMix(n, e) ==
    IF BailNoPlayback(loop_count)
    THEN rpc' = "return" /\ rleft' = 0 /\ data' = Chunk(n, e)
    ELSE rpc' = "mix" /\ rleft' = n /\ data' = <<>>

\* main.rs:82: if output_state.first_loop().  loop_count never decreases, so
\* when it is not 0 here it is not 0 at main.rs:92 either.
RenderFirstLoop(n, e) ==
    /\ ui = "ready" /\ rpc = "first_check"
    /\ IF first_loop(loop_count)
       THEN rpc' = "store_len" /\ UNCHANGED <<rclip, rlen, rleft, data>>
       ELSE rclip' = NoClip /\ rlen' = 0 /\ BailOrMix(n, e)
    /\ UNCHANGED <<stateVars, input, output, tap_count, input_playing,
                   output_playing, channel, bank, captureVars, rtotal, ui,
                   tap_result, calls, histVars>>

\* main.rs:83: loop_len.store(len + clip.samples.len()), then main.rs:92-98.
\* loop_len is read by this callback only.
RenderStoreLen(n, e) ==
    /\ ui = "ready" /\ rpc = "store_len"
    /\ loop_len' = rlen + Len(rclip.samples)
    /\ rclip' = NoClip /\ rlen' = 0
    /\ BailOrMix(n, e)
    /\ UNCHANGED <<playback, loop_count, total_samples, is_recording, input,
                   output, tap_count, input_playing, output_playing, channel,
                   bank, captureVars, rtotal, ui, tap_result, calls, histVars>>

\* main.rs:92-98 when no clip was written.
RenderBail(n, e) ==
    /\ ui = "ready" /\ rpc = "bail_check"
    /\ BailOrMix(n, e)
    /\ UNCHANGED <<stateVars, input, output, tap_count, input_playing,
                   output_playing, channel, bank, captureVars, rlen, rtotal,
                   rclip, ui, tap_result, calls, histVars>>

\* main.rs:103: the bank index read for layer loop_offset
sample_idx(pb, len, loop_offset) == pb + len * loop_offset

\* main.rs:101-105: the sum over the layers 0..count of the bank
RECURSIVE MixSum(_, _, _, _)
MixSum(b, pb, len, count) ==
    IF count = 0 THEN 0
    ELSE MixSum(b, pb, len, count - 1) + b[sample_idx(pb, len, count - 1)]

\* Whether every index of main.rs:104 is inside the bank (else a panic).
MixInRange(pb, len, count) ==
    \A k \in 0..(count - 1) : sample_idx(pb, len, k) < BankCapacity

\* State::advance_playback (main.rs:216-233): the new playback and loop_count
advance_playback(pb, len, lc, rec) ==
    IF ~began_recording(rec, lc) THEN [playback |-> pb, loop_count |-> lc]
    ELSE IF pb + 1 >= len
         THEN [playback |-> 0,
               loop_count |-> IF rec THEN inc_loop_count(lc) ELSE lc]
         ELSE [playback |-> pb + 1, loop_count |-> lc]

\* main.rs:99-110: one sample of the buffer is mixed and the cursor advances;
\* after the last sample the loop ends.  loop_len does not change
\* while the loop runs, so the len of main.rs:98 is loop_len.
RenderSample ==
    /\ ui = "ready" /\ rpc = "mix"
    /\ IF ~MixInRange(playback, loop_len, loop_count)
       THEN /\ rpc' = "panicked" /\ rleft' = 0 /\ data' = <<>>
            /\ UNCHANGED <<playback, loop_count, out>>
       ELSE LET sum == MixSum(bank, playback, loop_len, loop_count)
                adv == advance_playback(playback, loop_len, loop_count,
                                        is_recording)
            IN  /\ playback' = adv.playback
                /\ loop_count' = adv.loop_count
                /\ rleft' = rleft - 1
                /\ data' = Append(data, sum)
                /\ rpc' = IF rleft = 1 THEN "return" ELSE "mix"
                /\ out' = IF tap_count = 2 /\ ~fed_second /\ Len(out) < loop_len
                          THEN Append(out, sum) ELSE out
    /\ UNCHANGED <<loop_len, total_samples, is_recording, input, output,
                   tap_count, input_playing, output_playing, channel, bank,
                   captureVars, rlen, rtotal, rclip, ui, tap_result, calls,
                   fed_first, fed_second, fed_over>>

\* The callback has returned (main.rs:94 or main.rs:111): the backend takes
\* the buffer.
RenderReturn ==
    /\ ui = "ready" /\ rpc = "return"
    /\ rpc' = "idle" /\ data' = <<>>
    /\ UNCHANGED <<stateVars, input, output, tap_count, input_playing,
                   output_playing, channel, bank, captureVars, rlen, rtotal,
                   rclip, rleft, ui, tap_result, calls, histVars>>

\* ------------------------------------------------------------ specification
\* The steps of the render callback.
Render ==
    \/ RenderBegin
    \/ RenderWrite
    \/ \E n \in 1..MaxBuf, e \in BufferOnEntry : RenderFirstLoop(n, e)
    \/ \E n \in 1..MaxBuf, e \in BufferOnEntry : RenderStoreLen(n, e)
    \/ \E n \in 1..MaxBuf, e \in BufferOnEntry : RenderBail(n, e)
    \/ RenderSample
    \/ RenderReturn

\* The steps of the two audio callbacks.
Callbacks ==
    \/ \E n \in 1..MaxChunk : CaptureBegin(n)
    \/ CaptureLoadIdx
    \/ CaptureSend
    \/ RenderBegin
    \/ RenderWrite
    \/ \E n \in 1..MaxBuf, e \in BufferOnEntry : RenderFirstLoop(n, e)
    \/ \E n \in 1..MaxBuf, e \in BufferOnEntry : RenderStoreLen(n, e)
    \/ \E n \in 1..MaxBuf, e \in BufferOnEntry : RenderBail(n, e)
    \/ RenderSample
    \/ RenderReturn

Next ==
    \/ AttachStreams
    \/ \E outOk \in BOOLEAN, inOk \in BOOLEAN : Tap(outOk, inOk)
    \/ Callbacks

Spec == Init /\ [][Next]_vars

\* The program up to the tap that fixes the loop length: the third and later
\* taps are not made, and the input device hands in no further chunk once the
\* loop length is fixed.  loop_count is 0 only before the second tap, so every
\* state of Spec with loop_count = 0, and every step from it, is one of this
\* specification.
NextFirstLoop ==
    \/ AttachStreams
    \/ \E outOk \in BOOLEAN, inOk \in BOOLEAN : calls < 2 /\ Tap(outOk, inOk)
    \/ loop_count = 0 /\ \E n \in 1..MaxChunk : CaptureBegin(n)
    \/ CaptureLoadIdx
    \/ CaptureSend
    \/ Render

SpecFirstLoop == Init /\ [][NextFirstLoop]_vars

\* The backend keeps invoking the render callback and every invocation runs on
\* (the output stream's thread is scheduled), and a capture invocation that
\* has begun runs to its end; nothing is assumed of when the backend invokes
\* the capture callback and of the taps.
SpecLive ==
    Spec /\ WF_vars(Render) /\ WF_vars(CaptureLoadIdx \/ CaptureSend)

TypeOK ==
    /\ playback \in Nat /\ loop_len \in Nat /\ loop_count \in Nat
    /\ total_samples \in Nat /\ is_recording \in BOOLEAN
    /\ tap_count \in 0..MaxTaps /\ calls \in 0..MaxTaps
    /\ Len(channel) <= MaxQueue
    /\ cpc \in {"idle", "load_idx", "send"}
    /\ rpc \in {"idle", "write", "first_check", "store_len", "bail_check",
                "mix", "return", "panicked"}
    /\ ui \in {"ready", "halted"}
    /\ tap_result \in {"none", "ok", "err", "panic"}

\* ------------------------------------------------------------ properties
\* Nothing is in flight: both callbacks have returned and the channel is
\* empty.
Quiescent == cpc = "idle" /\ rpc = "idle" /\ channel = <<>>

\* The outputs of the next k samples the loop of main.rs:99-110 renders from
\* cursor pb and loop count lc when no other thread acts; -1 marks the
\* out-of-range panic, which ends the rendering.
RECURSIVE NextOut(_, _, _)
NextOut(pb, lc, k) ==
    IF k = 0 THEN <<>>
    ELSE IF ~MixInRange(pb, loop_len, lc) THEN <<-1>>
    ELSE LET adv == advance_playback(pb, loop_len, lc, is_recording)
         IN  <<MixSum(bank, pb, loop_len, lc)>>
                 \o NextOut(adv.playback, adv.loop_count, k - 1)

\* C1: after the second tap, once everything captured has been drained,
\* loop_len equals the number of samples handed to the capture callback
\* between the first and the second tap.
C1_LoopLenIsSumOfChunks ==
    (tap_count = 2 /\ Quiescent /\ fed_first < MaxFed) => loop_len = fed_first

\* C2: whenever the loop length is fixed (loop_count > 0) the playback cursor
\* is in [0, loop_len).
C2_CursorInRange ==
    loop_count > 0 => (0 <= playback /\ playback < loop_len)

\* C2 apart from a zero loop length: with a positive loop_len the cursor is
\* always below it.
C2_CursorInRangeOfPositiveLen ==
    (loop_count > 0 /\ loop_len > 0) => (0 <= playback /\ playback < loop_len)

\* C3: whenever the loop length is fixed (loop_count > 0), loop_len > 0.
C3_FixedLenPositive ==
    loop_count > 0 => loop_len > 0

\* C4: after a first layer of constant value V1 and the second tap, with no
\* further input, each of the first loop_len samples rendered equals V1.
C4_RoundTrip ==
    (tap_count = 2 /\ ~fed_second)
        => \A i \in 1..Len(out) : i <= loop_len => out[i] = V1

\* The overdub scenario is complete: a first layer of V1 of length loop_len,
\* nothing captured between the second and the third tap, the third tap,
\* then loop_len samples of V2 handed to capture and everything drained.
OverdubComplete ==
    /\ tap_count = 3 /\ Quiescent
    /\ ~fed_second
    /\ loop_len > 0 /\ loop_len = fed_first /\ loop_len <= BankCapacity
    /\ \A p \in 0..(loop_len - 1) : bank[p] = V1
    /\ fed_over = loop_len

\* C5: once the overdub scenario is complete, each of the next loop_len
\* rendered samples equals V1 + V2.
C5_Overdub ==
    OverdubComplete
        => NextOut(playback, loop_count, loop_len)
               = [i \in 1..loop_len |-> V1 + V2]

\* C6: a tap() made while the streams are missing returns an error and
\* changes nothing: no panic, recording flag, loop count and tap counter as
\* constructed.
C6_TapBeforeStreams ==
    (calls > 0 /\ output = "None")
        => /\ tap_result = "err"
           /\ ~is_recording /\ loop_count = 0 /\ tap_count = 0

\* C7: a bank write of a clip that does not fit the bank leaves the bank
\* unchanged and does not end the render callback by a panic.
C7_CapacityExceeded ==
    [][(rpc = "write" /\ ~write_fits(rclip.start, rclip.samples))
          => (bank' = bank /\ rpc' # "panicked")]_vars

\* C8: the step that writes a clip into the bank is taken only in states
\* where is_recording is true.
C8_WriteOnlyWhileRecording ==
    [][(rpc = "write" /\ rpc' # "write") => is_recording]_vars

\* C9: no step changes the playback cursor while the loop length is not
\* fixed (loop_count = 0).
C9_CursorFrozenFirstLoop ==
    [][loop_count = 0 => playback' = playback]_vars

\* C9 witness: during the first loop the render callback has drained a clip
\* and returned, and the cursor is where it started.
C9_Witness ==
    /\ loop_count = 0 /\ total_samples > 0 /\ loop_len > 1
    /\ is_recording /\ rpc = "idle" /\ playback = 0

\* C10: with the streams constructed, the first tap() call enables recording
\* and starts both streams, the second fixes the loop length, and every later
\* call toggles recording once, whatever the calls return.
C10_TapMapping ==
    (output = "Some" /\ calls >= 1)
        => /\ input_playing /\ output_playing
           /\ calls = 1 => is_recording
           /\ calls >= 2 => loop_count > 0
           /\ calls >= 3 => (is_recording <=> (calls % 2 = 0))

\* C11: from the second tap on, recording is off after an even number of
\* taps (Looping) and on after an odd number (Overdubbing): off after the
\* second tap, on after the third, off after the fourth.
C11_RecordingAlternates ==
    tap_count >= 2 => (is_recording <=> (tap_count % 2 = 1))

\* C12: once the loop length is fixed (loop_count > 0) it stays fixed and no
\* step changes loop_len.
C12_LoopLenFixedOnce ==
    [][loop_count > 0 => (loop_count' > 0 /\ loop_len' = loop_len)]_vars

\* C13: while the first layer is recorded, the start offset of the clip a
\* capture invocation is about to send equals the sum of the lengths of the
\* clips sent before it (the samples handed to capture so far, less this
\* chunk).
C13_ContiguousOffsets ==
    (cpc = "send" /\ tap_count = 1 /\ fed_first < MaxFed)
        => cidx = fed_first - Len(cdata)

\* C16: in the state the second tap is made from (and so in the state it
\* leaves, the tap changing neither), loop_len equals total_samples.
C16_LenIsTotalAtSecondTap ==
    [][(tap_count = 1 /\ tap_count' = 2) => loop_len = total_samples]_vars

\* C17: once the loop length is fixed at a positive value, loop_count equals
\* ceil(total_samples / loop_len), computed as
\* (total_samples + loop_len - 1) \div loop_len.
C17_LoopCountIsCeil ==
    (loop_count > 0 /\ loop_len > 0)
        => loop_count = (total_samples + loop_len - 1) \div loop_len

\* C14: when a render invocation returns while the loop length is not fixed
\* (loop_count = 0), every sample of the output buffer is 0.
C14_SilenceFirstLoop ==
    (rpc = "return" /\ loop_count = 0) => \A i \in 1..Len(data) : data[i] = 0

\* C15: a capture invocation that finds is_recording false returns at once:
\* it leaves the channel, total_samples, loop_len, the playback cursor and
\* the bank unchanged and is not on its way to send a clip.
C15_DiscardWhenNotRecording ==
    [][((\E n \in 1..MaxChunk : CaptureBegin(n)) /\ ~is_recording)
          => /\ cpc' = "idle" /\ channel' = channel
             /\ total_samples' = total_samples /\ loop_len' = loop_len
             /\ playback' = playback /\ bank' = bank]_vars

\* C15 witness: after the third tap recording is off and a chunk has been
\* handed to the capture callback, which has returned without sending.
C15_Witness ==
    /\ tap_count = 3 /\ ~is_recording /\ fed_over > 0
    /\ cpc = "idle" /\ channel = <<>>

\* C18: whenever the mixing loop is about to mix a sample, every bank index
\* it reads, playback + loop_len * k for k < loop_count, is below the bank
\* capacity.
C18_MixReadsInRange ==
    rpc = "mix" => MixInRange(playback, loop_len, loop_count)

\* C19: only the first step of a render invocation takes a clip from the
\* channel, it takes exactly one, namely the clip sent first, and that is the
\* clip the invocation goes on to write; a send puts the clip behind the
\* clips already pending.
C19_OneClipInOrder ==
    [][/\ rpc # "idle" => Len(channel') >= Len(channel)
       /\ Len(channel') < Len(channel)
            => /\ channel' = Tail(channel)
               /\ rpc' = "write" => rclip' = Head(channel)
       /\ Len(channel') > Len(channel)
            => /\ Len(channel') = Len(channel) + 1
               /\ SubSeq(channel', 1, Len(channel)) = channel
               /\ channel'[Len(channel')] = Clip(cdata, cidx)
       /\ (rpc = "write" /\ rpc' # "write")
            => bank' = write_at(bank, rclip.start, rclip.samples)
      ]_vars

\* C19 witness: the render callback has received the clip sent first and is
\* about to write it while a different clip, sent later, is still pending.
C19_Witness ==
    /\ rpc = "write" /\ channel # <<>>
    /\ rclip # channel[Len(channel)]
    /\ bank[0] # 0

\* C20: if from some point on no clip is sent any more, and the render
\* callback is never held back by the bound MaxLoops, then from some point on
\* the channel is empty: every clip sent has been received.
C20_ChannelDrains ==
    (<>[][Len(channel') <= Len(channel)]_vars /\ [](loop_count < MaxLoops))
        => <>[](channel = <<>>)

\* C20 apart from panics of the render callback: if moreover the render
\* callback never panics, the channel does become and stay empty.
C20_ChannelDrainsUnlessPanicked ==
    (/\ <>[][Len(channel') <= Len(channel)]_vars
     /\ [](loop_count < MaxLoops)
     /\ [](rpc # "panicked"))
        => <>[](channel = <<>>)

====
